---- MODULE Spec2Model ----
(***************************************************************************)
(* DictDialogAgent (agentscope/agents/dict_dialog_agent.py): one agent,    *)
(* its constructor and its reply cycle.  The reply cycle appends the       *)
(* caller input to the memory, joins the prompt, calls the model wrapper   *)
(* with parse_func / fault_handler / max_retries, builds a Msg from the    *)
(* response and appends it to the memory.  The model wrapper's retry loop  *)
(* (the "Structured-Response Acquirer") lives outside this file and is     *)
(* modelled from its contract.                                             *)
(***************************************************************************)
EXTENDS Integers, Sequences, FiniteSets, TLC

VARIABLES
    args,            \* arguments given to __init__
    agent,           \* the agent object's fields (self.*)
    memory,          \* self.memory: the history, a sequence of messages
    pc,              \* position of the caller / of reply
    x,               \* reply's argument: <<>> for None, <<m>> for a message
    pre_memory,      \* the memory when the running reply cycle was entered
    acq,             \* arguments of the running model call
    budget,          \* remaining retries of the running model call
    calls,           \* generation-service calls issued by the running model call
    attempts,        \* outcomes of those calls, in order
    fallback_calls,  \* fault_handler invocations of the running model call
    fallback_arg,    \* raw texts handed to the fault_handler, in order
    response,        \* reply's local `response`
    msg,             \* reply's local `msg`
    err,             \* the exception that left reply, "none" if none
    returned,        \* values returned by reply so far, in order
    cycles,          \* reply cycles started so far
    sent,            \* prompt payloads given to the generation service by the
                     \* running model call, in order
    other            \* a second caller's reply on the same agent: its position
                     \* and locals

vars == <<args, agent, memory, pc, x, pre_memory, acq, budget, calls,
          attempts, fallback_calls, fallback_arg, response, msg, err,
          returned, cycles, sent, other>>

(***************************************************************************)
(* Bounds of the model.                                                    *)
(***************************************************************************)
MaxRetries == 2
MaxCycles == 2

(***************************************************************************)
(* Values: what json.loads and the fault handlers can return.              *)
(***************************************************************************)
NoFields == [k \in {} |-> 0]

Str(s) == [t |-> "str", s |-> s, i |-> 0, d |-> NoFields]

Num(i) == [t |-> "int", s |-> "", i |-> i, d |-> NoFields]

Dict(d) == [t |-> "dict", s |-> "", i |-> 0, d |-> d]

NoneValue == [t |-> "none", s |-> "", i |-> 0, d |-> NoFields]

IsDict(v) == v.t = "dict"

IsStr(v) == v.t = "str"

(***************************************************************************)
(* Raw texts the generation service can produce.                           *)
(***************************************************************************)
TFull == "{\"speak\": \"hi\", \"mood\": \"happy\"}"

TSpeakNum == "{\"speak\": 5}"

TNoSpeak == "{\"mood\": \"sad\"}"

TClash == "{\"speak\": \"yo\", \"name\": \"eve\"}"

TScalar == "42"

TPlain == "I agree."

TEmpty == ""

RawTexts == {TFull, TSpeakNum, TNoSpeak, TClash, TScalar, TPlain, TEmpty}

\* json.loads: the texts it accepts
JsonAccepts(t) == t \in {TFull, TSpeakNum, TNoSpeak, TClash, TScalar}

\* json.loads: the value of an accepted text
JsonLoads(t) ==
    CASE t = TFull -> Dict([k \in {"speak", "mood"} |->
                              IF k = "speak" THEN Str("hi") ELSE Str("happy")])
      [] t = TSpeakNum -> Dict([k \in {"speak"} |-> Num(5)])
      [] t = TNoSpeak -> Dict([k \in {"mood"} |-> Str("sad")])
      [] t = TClash -> Dict([k \in {"speak", "name"} |->
                              IF k = "speak" THEN Str("yo") ELSE Str("eve")])
      [] t = TScalar -> Num(42)
      [] OTHER -> NoneValue

\* a caller-supplied parse_func: json.loads that insists on a JSON object
ObjectAccepts(t) == JsonAccepts(t) /\ IsDict(JsonLoads(t))

ParseFuncs == {"json.loads", "loads_object"}

Accepts(pf, t) == IF pf = "json.loads" THEN JsonAccepts(t) ELSE ObjectAccepts(t)

Parse(pf, t) == JsonLoads(t)

\* the default fault_handler: lambda x: {"speak": x}
DefaultFaultHandler(t) == Dict([k \in {"speak"} |-> Str(t)])

\* a caller-supplied fault_handler: lambda x: x
RawFaultHandler(t) == Str(t)

FaultHandlers == {"default", "raw"}

ApplyFaultHandler(fh, t) ==
    IF fh = "default" THEN DefaultFaultHandler(t) ELSE RawFaultHandler(t)

(***************************************************************************)
(* Outcomes of one generation-service call: a raw text, or a failure.      *)
(***************************************************************************)
GenText(t) == [ok |-> TRUE, text |-> t]

GenFailure == [ok |-> FALSE, text |-> ""]

Outcomes == {GenText(t) : t \in RawTexts} \cup {GenFailure}

\* the payload of a generation call, given the payload the model call
\* received and the outcomes of its earlier calls: the same payload verbatim
RetryPayload(prompt, earlier) == prompt

\* a failed generation call ends the model call at once
AcquireStep_FatalGeneration(pf, fh, b, out) ==
    IF ~out.ok THEN "GenerationServiceError"
    ELSE IF Accepts(pf, out.text) THEN "return"
    ELSE IF b > 0 THEN "retry"
    ELSE IF fh # "none" THEN "fallback"
    ELSE "DecodeError"

\* what the model wrapper does with the outcome of a generation call, given
\* the remaining retry budget b: return the decoded record, retry, fall back
\* on the raw text, or raise
AcquireStep(pf, fh, b, out) ==
    IF out.ok /\ Accepts(pf, out.text) THEN "return"
    ELSE IF b > 0 THEN "retry"
    ELSE IF ~out.ok THEN "GenerationServiceError"
    ELSE IF fh # "none" THEN "fallback"
    ELSE "DecodeError"

(***************************************************************************)
(* Messages.                                                               *)
(***************************************************************************)
NoMsg == [name |-> "", content |-> NoneValue, fields |-> NoFields]

UserMsg == [name |-> "user", content |-> Str("what now?"), fields |-> NoFields]

\* reply(x): None, or a message of the caller
Inputs == {<<>>, <<UserMsg>>}

\* the parameters of Msg that reply fills positionally
MsgPositionalParams == {"name", "content"}

\* Msg(name, content, **kwargs): a keyword that names a parameter already
\* filled positionally is a TypeError
MsgCall(name, content, kwargs) ==
    IF DOMAIN kwargs \cap MsgPositionalParams # {}
    THEN [ok |-> FALSE, msg |-> NoMsg]
    ELSE [ok |-> TRUE,
          msg |-> [name |-> name, content |-> content, fields |-> kwargs]]

\* the display text taken to be the whole record
BuildMsg_WholeRecord(name, r) ==
    IF IsDict(r) /\ "speak" \in DOMAIN r.d
    THEN MsgCall(name, r, r.d)
    ELSE MsgCall(name, r, NoFields)

\* every mapping unpacked into the message, with or without "speak"
BuildMsg_AlwaysUnpack(name, r) ==
    IF IsDict(r) /\ "speak" \in DOMAIN r.d
    THEN MsgCall(name, r.d["speak"], r.d)
    ELSE MsgCall(name, r, IF IsDict(r) THEN r.d ELSE NoFields)

\* reply, lines 146-149
BuildMsg(name, r) ==
    IF IsDict(r) /\ "speak" \in DOMAIN r.d
    THEN MsgCall(name, r.d["speak"], r.d)
    ELSE MsgCall(name, r, NoFields)

\* the keys of a message seen as a dict
MsgKeys(m) == {"name", "content"} \cup DOMAIN m.fields

(***************************************************************************)
(* The agent.                                                              *)
(***************************************************************************)
AgentName == "alice"

SysPrompt == "You are alice. Respond in JSON."

RetryArgs == (0 - 1) .. MaxRetries

CtorArgs == [name : {AgentName}, sys_prompt : {SysPrompt},
             parse_func : ParseFuncs, fault_handler : FaultHandlers,
             max_retries : RetryArgs]

NoAgent == [constructed |-> FALSE, name |-> "", sys_prompt |-> "",
            parse_func |-> "json.loads", fault_handler |-> "default",
            max_retries |-> 0]

\* __init__: the fields it records
InitFields(a) ==
    [constructed |-> TRUE, name |-> a.name, sys_prompt |-> a.sys_prompt,
     parse_func |-> a.parse_func, fault_handler |-> a.fault_handler,
     max_retries |-> a.max_retries]

\* self.engine.join(self.sys_prompt, self.memory.get_memory())
Join(sys, hist) == [sys |-> sys, hist |-> hist]

NoPrompt == Join("", <<>>)

\* the caller input added twice
AddInput_Twice(mem, xin) == mem \o xin \o xin

\* reply, lines 123-125: record the input if there is one
AddInput(mem, xin) == IF xin # <<>> THEN Append(mem, xin[1]) ELSE mem

\* the prompt joined before the input is recorded
PromptHistory_BeforeInput(before, after) == before

\* reply, line 130: the history read for the prompt, given the memory before
\* and after lines 123-125
PromptHistory(before, after) == after

\* the system prompt left out of the prompt
ReplyPrompt_NoSys(self, hist) == Join("", hist)

\* reply, lines 127-131
ReplyPrompt(self, hist) == Join(self.sys_prompt, hist)

\* the message put in front of the history
RecordMsg_Front(mem, m) == <<m>> \o mem

\* reply, lines 154-155
RecordMsg(mem, m) == Append(mem, m)

\* the retry limit forwarded one too high
ReplyModelKwargs_OffByOne(self) ==
    [parse_func |-> self.parse_func, fault_handler |-> self.fault_handler,
     max_retries |-> self.max_retries + 1]

\* the decoder hard-coded instead of the configured one
ReplyModelKwargs_FixedParse(self) ==
    [parse_func |-> "loads_object", fault_handler |-> self.fault_handler,
     max_retries |-> self.max_retries]

\* the fault handler not forwarded
ReplyModelKwargs_NoHandler(self) ==
    [parse_func |-> self.parse_func, fault_handler |-> "none",
     max_retries |-> self.max_retries]

\* the default retry limit forwarded instead of the configured one
ReplyModelKwargs_DefaultRetries(self) ==
    [parse_func |-> self.parse_func, fault_handler |-> self.fault_handler,
     max_retries |-> MaxRetries + 1]

\* the keyword arguments reply gives to self.model
ReplyModelKwargs(self) ==
    [parse_func |-> self.parse_func, fault_handler |-> self.fault_handler,
     max_retries |-> self.max_retries]

NoAcq == [prompt |-> NoPrompt, parse_func |-> "json.loads",
          fault_handler |-> "default", max_retries |-> 0]

\* the second caller before its reply
OtherIdle == [pc |-> "idle", x |-> <<>>, pre |-> <<>>, prompt |-> NoPrompt,
              response |-> NoneValue, msg |-> NoMsg]

(***************************************************************************)
(* Initial state: nothing constructed yet.                                 *)
(***************************************************************************)
Init ==
    /\ args \in CtorArgs
    /\ agent = NoAgent
    /\ memory = <<>>
    /\ pc = "new"
    /\ x = <<>>
    /\ pre_memory = <<>>
    /\ acq = NoAcq
    /\ budget = 0
    /\ calls = 0
    /\ attempts = <<>>
    /\ fallback_calls = 0
    /\ fallback_arg = <<>>
    /\ response = NoneValue
    /\ msg = NoMsg
    /\ err = "none"
    /\ returned = <<>>
    /\ cycles = 0
    /\ sent = <<>>
    /\ other = OtherIdle

\* DictDialogAgent.__init__
Construct ==
    /\ pc = "new"
    /\ agent' = InitFields(args)
    /\ memory' = <<>>
    /\ pc' = "idle"
    /\ UNCHANGED <<args, x, pre_memory, acq, budget, calls, attempts,
                   fallback_calls, fallback_arg, response, msg, err,
                   returned, cycles, sent, other>>

\* reply, lines 123-139 up to the entry of the model call
ReplyStart(xin) ==
    /\ pc \in {"idle", "aborted"}
    /\ cycles < MaxCycles
    /\ cycles' = cycles + 1
    /\ x' = xin
    /\ pre_memory' = memory
    /\ memory' = AddInput(memory, xin)
    /\ acq' = [prompt |-> ReplyPrompt(agent, PromptHistory(memory, memory'))]
                 @@ ReplyModelKwargs(agent)
    /\ sent' = <<>>
    /\ budget' = ReplyModelKwargs(agent).max_retries
    /\ calls' = 0
    /\ attempts' = <<>>
    /\ fallback_calls' = 0
    /\ fallback_arg' = <<>>
    /\ response' = NoneValue
    /\ msg' = NoMsg
    /\ err' = "none"
    /\ pc' = "acquiring"
    /\ UNCHANGED <<args, agent, returned, other>>

\* the model call: one generation-service call and what the wrapper does
\* with its outcome
Attempt(out) ==
    /\ pc = "acquiring"
    /\ calls' = calls + 1
    /\ attempts' = Append(attempts, out)
    /\ sent' = Append(sent, RetryPayload(acq.prompt, attempts))
    /\ LET step == AcquireStep(acq.parse_func, acq.fault_handler, budget, out)
       IN CASE step = "return" ->
                 /\ response' = Parse(acq.parse_func, out.text)
                 /\ pc' = "acquired"
                 /\ UNCHANGED <<budget, fallback_calls, fallback_arg, err>>
            [] step = "retry" ->
                 /\ budget' = budget - 1
                 /\ UNCHANGED <<pc, response, fallback_calls, fallback_arg, err>>
            [] step = "fallback" ->
                 /\ response' = ApplyFaultHandler(acq.fault_handler, out.text)
                 /\ fallback_calls' = fallback_calls + 1
                 /\ fallback_arg' = Append(fallback_arg, out.text)
                 /\ pc' = "acquired"
                 /\ UNCHANGED <<budget, err>>
            [] OTHER ->
                 /\ err' = step
                 /\ pc' = "aborted"
                 /\ UNCHANGED <<budget, response, fallback_calls, fallback_arg>>
    /\ UNCHANGED <<args, agent, memory, x, pre_memory, acq, msg, returned,
                   cycles, other>>

\* reply, lines 141-152
Build ==
    /\ pc = "acquired"
    /\ LET b == BuildMsg(agent.name, response)
       IN IF b.ok
          THEN msg' = b.msg /\ pc' = "built" /\ err' = err
          ELSE msg' = msg /\ pc' = "aborted" /\ err' = "TypeError"
    /\ UNCHANGED <<args, agent, memory, x, pre_memory, acq, budget, calls,
                   attempts, fallback_calls, fallback_arg, response,
                   returned, cycles, sent, other>>

\* reply, lines 154-157
Record ==
    /\ pc = "built"
    /\ memory' = RecordMsg(memory, msg)
    /\ returned' = Append(returned, msg)
    /\ pc' = "idle"
    /\ UNCHANGED <<args, agent, x, pre_memory, acq, budget, calls, attempts,
                   fallback_calls, fallback_arg, response, msg, err, cycles,
                   sent, other>>

Next ==
    \/ Construct
    \/ \E xin \in Inputs : ReplyStart(xin)
    \/ \E out \in Outcomes : Attempt(out)
    \/ Build
    \/ Record

Spec == Init /\ [][Next]_vars

(***************************************************************************)
(* Properties of the model call as reply issues it.                        *)
(***************************************************************************)
Last(sq) == sq[Len(sq)]

\* every generation call of the running model call returned a raw text
AllTexts == \A i \in 1..Len(attempts) : attempts[i].ok

\* ... and the agent's decoder rejects each of them
AllRejected ==
    /\ Len(attempts) > 0
    /\ \A i \in 1..Len(attempts) :
          attempts[i].ok /\ ~Accepts(agent.parse_func, attempts[i].text)

HasSpeak(r) == IsDict(r) /\ "speak" \in DOMAIN r.d

\* C1: with a retry budget n >= 0 and raw texts that the decoder always
\* rejects, the model call has issued exactly n+1 generation calls when it
\* returns (1 when n = 0), and it returns the fault handler applied, once, to
\* the raw text of the last call.
C1_RejectedAlways ==
    (pc = "acquired" /\ agent.max_retries >= 0 /\ AllRejected) =>
        /\ calls = agent.max_retries + 1
        /\ Len(attempts) = calls
        /\ fallback_calls = 1
        /\ fallback_arg = <<Last(attempts).text>>
        /\ response = ApplyFaultHandler(agent.fault_handler, Last(attempts).text)

C1_Witness ==
    /\ pc = "acquired"
    /\ agent.max_retries = MaxRetries
    /\ AllRejected
    /\ calls = MaxRetries + 1
    /\ attempts[1].text # Last(attempts).text
    /\ response = ApplyFaultHandler(agent.fault_handler, Last(attempts).text)

\* C2: if the first generation call returns a raw text the decoder accepts,
\* the model call returns the decoded text after exactly one generation call
\* and without invoking the fault handler, whatever the retry budget.
C2_AcceptedFirst ==
    (/\ pc \in {"acquiring", "acquired"}
     /\ Len(attempts) >= 1
     /\ attempts[1].ok
     /\ Accepts(agent.parse_func, attempts[1].text)) =>
        /\ pc = "acquired"
        /\ calls = 1
        /\ Len(attempts) = 1
        /\ response = Parse(agent.parse_func, attempts[1].text)
        /\ fallback_calls = 0

C2_Witness ==
    /\ pc = "acquired"
    /\ agent.max_retries = MaxRetries
    /\ attempts = <<GenText(TScalar)>>
    /\ response = Num(42)
    /\ fallback_calls = 0

C4_FailureRetried ==
    [][(/\ pc = "acquiring"
        /\ budget > 0
        /\ attempts' = Append(attempts, GenFailure)) =>
           /\ budget' = budget - 1
           /\ pc' = "acquiring"
           /\ err' = "none"
           /\ response' = response
           /\ fallback_calls' = 0]_vars

C4_Witness ==
    /\ pc = "acquired"
    /\ Len(attempts) = 2
    /\ attempts[1] = GenFailure
    /\ attempts[2].ok
    /\ budget = agent.max_retries - 1
    /\ err = "none"

\* C5: an agent with a negative retry budget cannot be constructed: the
\* construction fails with a ConfigurationError, and no reply cycle runs
\* with a negative budget.
C5_NegativeRejected ==
    /\ (pc # "new" /\ args.max_retries < 0) =>
           (~agent.constructed /\ err = "ConfigurationError")
    /\ agent.constructed => agent.max_retries >= 0
    /\ pc = "acquiring" => budget >= 0

\* C6: building the message never fails: whatever record the model call
\* returned, reply goes on to a built message.
C6_BuildNeverFails ==
    [][pc = "acquired" => (pc' = "built" /\ err' = "none")]_vars

\* C7: the display text of every message reply builds and returns is a
\* string.
C7_ContentIsString ==
    /\ pc = "built" => IsStr(msg.content)
    /\ \A i \in 1..Len(returned) : IsStr(returned[i].content)

\* C8: a message built from a mapping with "speak" has the agent's name as
\* sender, the "speak" value as display text and all entries of the mapping,
\* "speak" included, as additional fields.
C8_SpeakRecord ==
    (pc = "built" /\ HasSpeak(response)) =>
        /\ msg.name = agent.name
        /\ msg.content = response.d["speak"]
        /\ msg.fields = response.d
        /\ "speak" \in DOMAIN msg.fields

C8_Witness ==
    /\ pc = "built"
    /\ Last(attempts) = GenText(TFull)
    /\ msg.name = AgentName
    /\ msg.content = Str("hi")
    /\ DOMAIN msg.fields = {"speak", "mood"}
    /\ msg.fields["speak"] = Str("hi")
    /\ msg.fields["mood"] = Str("happy")

C10_ReturnedHasSpeak ==
    \A i \in 1..Len(returned) :
        /\ "speak" \in MsgKeys(returned[i])
        /\ IsStr(returned[i].fields["speak"])

(***************************************************************************)
(* Properties of the reply cycle and of the history.                       *)
(***************************************************************************)
\* C11: after a reply cycle with caller input I that returned M, the history
\* ends with I immediately followed by M, however many retries were used.
C11_InputThenResult ==
    (pc = "idle" /\ cycles > 0 /\ x # <<>>) =>
        LET n == Len(memory)
        IN /\ n >= 2
           /\ memory[n - 1] = x[1]
           /\ memory[n] = Last(returned)
           /\ Last(returned) = msg
           /\ memory = pre_memory \o <<x[1], Last(returned)>>

C11_Witness ==
    /\ pc = "idle"
    /\ cycles = 2
    /\ x = <<UserMsg>>
    /\ calls > 1
    /\ Len(memory) >= 3
    /\ memory[Len(memory) - 1] = UserMsg
    /\ memory[Len(memory)] = msg

(***************************************************************************)
(* A second caller: another thread that calls reply on the same agent.     *)
(* reply takes no lock, so its statements interleave with those of the     *)
(* first caller.  The second caller's model call is summarised by the      *)
(* record it returns.                                                      *)
(***************************************************************************)
\* the records a model call can return when the generation service answers
\* with raw texts
ModelCallResults(kw) ==
    {Parse(kw.parse_func, t) : t \in {u \in RawTexts : Accepts(kw.parse_func, u)}}
    \cup {ApplyFaultHandler(kw.fault_handler, t) :
             t \in {u \in RawTexts : ~Accepts(kw.parse_func, u)}}

\* reply, lines 123-139 up to the entry of the model call
OtherStart(xin) ==
    /\ pc # "new"
    /\ other.pc = "idle"
    /\ memory' = AddInput(memory, xin)
    /\ other' = [pc |-> "acquiring", x |-> xin, pre |-> memory,
                 prompt |-> ReplyPrompt(agent, PromptHistory(memory, memory')),
                 response |-> NoneValue, msg |-> NoMsg]
    /\ UNCHANGED <<args, agent, pc, x, pre_memory, acq, budget, calls,
                   attempts, fallback_calls, fallback_arg, response, msg, err,
                   returned, cycles, sent>>

\* reply, lines 133-139: the model call returns
OtherAcquire ==
    /\ other.pc = "acquiring"
    /\ \E r \in ModelCallResults(ReplyModelKwargs(agent)) :
          other' = [other EXCEPT !.pc = "acquired", !.response = r]
    /\ UNCHANGED <<args, agent, memory, pc, x, pre_memory, acq, budget, calls,
                   attempts, fallback_calls, fallback_arg, response, msg, err,
                   returned, cycles, sent>>

\* reply, lines 141-152
OtherBuild ==
    /\ other.pc = "acquired"
    /\ LET b == BuildMsg(agent.name, other.response)
       IN IF b.ok
          THEN other' = [other EXCEPT !.pc = "built", !.msg = b.msg]
          ELSE other' = [other EXCEPT !.pc = "aborted"]
    /\ UNCHANGED <<args, agent, memory, pc, x, pre_memory, acq, budget, calls,
                   attempts, fallback_calls, fallback_arg, response, msg, err,
                   returned, cycles, sent>>

\* reply, lines 154-157
OtherRecord ==
    /\ other.pc = "built"
    /\ memory' = RecordMsg(memory, other.msg)
    /\ other' = [other EXCEPT !.pc = "done"]
    /\ UNCHANGED <<args, agent, pc, x, pre_memory, acq, budget, calls,
                   attempts, fallback_calls, fallback_arg, response, msg, err,
                   returned, cycles, sent>>

\* the agents of the two-caller scenario: default decoder and fault handler,
\* at most one retry
ConcArgs ==
    {a \in CtorArgs : /\ a.parse_func = "json.loads"
                      /\ a.fault_handler = "default"
                      /\ a.max_retries \in {0, 1}}

InitConc == Init /\ args \in ConcArgs

\* the first caller calls reply once
FirstReply(xin) == cycles = 0 /\ ReplyStart(xin)

NextConc ==
    \/ Construct
    \/ \E xin \in Inputs : FirstReply(xin)
    \/ \E out \in Outcomes : Attempt(out)
    \/ Build
    \/ Record
    \/ \E xin \in Inputs : OtherStart(xin)
    \/ OtherAcquire
    \/ OtherBuild
    \/ OtherRecord

SpecConc == InitConc /\ [][NextConc]_vars

Replying(p) == p \in {"acquiring", "acquired", "built"}

\* C12: at most one reply cycle of an agent is in the Replying state at any
\* time, and each cycle's input is immediately followed in the history by
\* that cycle's own result.
C12_OneCycleAtATime ==
    /\ ~(Replying(pc) /\ Replying(other.pc))
    /\ (other.pc = "done" /\ other.x # <<>>) =>
           /\ Len(memory) >= Len(other.pre) + 2
           /\ memory[Len(other.pre) + 1] = other.x[1]
           /\ memory[Len(other.pre) + 2] = other.msg

(***************************************************************************)
(* Properties of the retry budget.                                         *)
(***************************************************************************)
\* C13: within one model call the remaining budget starts at max_retries,
\* is never negative, never grows and drops by one for each failed attempt
\* that is retried; the model call issues at least 1 and at most
\* max_retries + 1 generation calls.
C13_BudgetBounds ==
    Replying(pc) =>
        /\ budget >= 0
        /\ budget <= acq.max_retries
        /\ budget = acq.max_retries - (IF pc = "acquiring" THEN calls ELSE calls - 1)
        /\ calls <= acq.max_retries + 1
        /\ (pc # "acquiring" => calls >= 1)

\* C14: if the decoder accepts the raw text of attempt k (the earlier
\* attempts having failed), the model call returns the decoded k-th text
\* after exactly k generation calls: an accepted text is always the last
\* attempt, and the fault handler is not used.
C14_FirstSuccess ==
    \A k \in 1..Len(attempts) :
        (/\ attempts[k].ok
         /\ Accepts(agent.parse_func, attempts[k].text)
         /\ k <= agent.max_retries + 1) =>
            /\ k = Len(attempts)
            /\ calls = k
            /\ pc # "acquiring"
            /\ response = Parse(agent.parse_func, attempts[k].text)
            /\ fallback_calls = 0
            /\ \A j \in 1..(k - 1) :
                  ~(attempts[j].ok /\ Accepts(agent.parse_func, attempts[j].text))

C14_Witness ==
    /\ pc = "acquired"
    /\ agent.max_retries = MaxRetries
    /\ Len(attempts) = MaxRetries + 1
    /\ attempts[1] = GenText(TPlain)
    /\ attempts[2] = GenText(TEmpty)
    /\ Last(attempts) = GenText(TFull)
    /\ calls = MaxRetries + 1
    /\ response = JsonLoads(TFull)

\* C15: the fault handler is invoked at most once per model call, only when
\* the budget has reached zero and the decoding of the latest raw text
\* failed; its argument is the raw text of the final attempt; it is never
\* invoked in a model call in which a decoding succeeded.
C15_FallbackOnce ==
    /\ fallback_calls <= 1
    /\ Len(fallback_arg) = fallback_calls
    /\ fallback_calls = 1 =>
           /\ budget = 0
           /\ Last(attempts).ok
           /\ ~Accepts(agent.parse_func, Last(attempts).text)
           /\ fallback_arg = <<Last(attempts).text>>
           /\ \A i \in 1..Len(attempts) :
                 ~(attempts[i].ok /\ Accepts(agent.parse_func, attempts[i].text))

(***************************************************************************)
(* Properties of the prompt.                                               *)
(***************************************************************************)
\* C16: every generation call of one model call, the first and each retry,
\* receives the same payload: the prompt joined once at the start of the
\* reply cycle from the system prompt and the history, with nothing added
\* between attempts.
C16_SamePrompt ==
    /\ Len(sent) = calls
    /\ \A i \in 1..Len(sent) :
          /\ sent[i] = Join(agent.sys_prompt, pre_memory \o x)
          /\ sent[i] = sent[1]

C16_Witness ==
    /\ pc = "acquired"
    /\ cycles = 2
    /\ x = <<UserMsg>>
    /\ Len(pre_memory) > 0
    /\ Len(sent) = MaxRetries + 1
    /\ sent[1] = Last(sent)
    /\ Last(sent).sys = SysPrompt
    /\ Last(sent).hist = Append(pre_memory, UserMsg)

(***************************************************************************)
(* Properties of the reply cycle as a whole.                               *)
(***************************************************************************)
\* C17: whatever raw texts the generation service returns, a reply cycle
\* goes from Idle through Replying back to Idle with a message returned: no
\* cycle ends in an aborted state.
C17_NeverAborted ==
    AllTexts =>
        /\ pc # "aborted"
        /\ err = "none"
        /\ (pc = "idle" /\ cycles > 0 => Len(returned) = cycles)

\* C18: the prompt of a reply cycle is joined after the caller input is
\* appended and before the result is appended: its history is the pre-cycle
\* history followed by the input (unchanged when there is no input), and the
\* cycle's own result comes after it.
C18_PromptAfterInput ==
    cycles > 0 =>
        /\ acq.prompt.sys = agent.sys_prompt
        /\ acq.prompt.hist = pre_memory \o x
        /\ (x = <<>> => acq.prompt.hist = pre_memory)
        /\ (Replying(pc) => memory = acq.prompt.hist)
        /\ (pc = "idle" => memory = Append(acq.prompt.hist, msg))

C18_Witness ==
    /\ pc = "idle"
    /\ cycles = 2
    /\ x = <<UserMsg>>
    /\ Len(pre_memory) > 0
    /\ acq.prompt.hist = Append(pre_memory, UserMsg)
    /\ Len(memory) = Len(acq.prompt.hist) + 1
    /\ Last(memory) = msg

IsPrefix(p, q) == Len(p) <= Len(q) /\ SubSeq(q, 1, Len(p)) = p

C20_FreshBudget ==
    [][/\ (pc # "acquiring" /\ pc' = "acquiring") =>
              /\ budget' = agent.max_retries
              /\ acq'.max_retries = args.max_retries
              /\ acq'.parse_func = args.parse_func
              /\ acq'.fault_handler = args.fault_handler
              /\ calls' = 0
       /\ agent.constructed => (agent' = agent /\ agent = InitFields(args))]_vars

C20_Witness ==
    /\ pc = "acquiring"
    /\ cycles = 2
    /\ agent.max_retries = MaxRetries
    /\ agent.fault_handler = "default"
    /\ Len(returned) = 1
    /\ returned[1].content = Str(TPlain)
    /\ calls = 0
    /\ budget = MaxRetries

====
